---- MODULE Spec2Model ----
(***************************************************************************)
(* Model of optimus-rs (src/src/optimus.rs): the Optimus engine, its two   *)
(* constructors, calc_mod_inverse, encode and decode.                      *)
(*                                                                         *)
(* Widths are scaled.  The source works on the domain [0, 2^31 - 1] inside *)
(* 64-bit words (u64 / i64).  TLC's integers are 32 bits wide, so the model*)
(* keeps the SHAPE of the widths and shrinks them: the domain has Bits     *)
(* bits where the source has 31, and a machine word has 2 * Bits + 2 bits  *)
(* where the source has 64 = 2 * 31 + 2.  Every fact the code relies on    *)
(* (MAX_INT + 1 is a power of two, the product of two in-domain values     *)
(* fits a word, a word can hold much more than the domain) is preserved.   *)
(***************************************************************************)
EXTENDS Integers, Sequences, FiniteSets, TLC

VARIABLES build, o, twin, ret, before

vars == <<build, o, twin, ret, before>>

(***************************************************************************)
(* Bounds of the model.                                                    *)
(***************************************************************************)
\* Bits of the encode/decode domain (31 in the source).
Bits == 4

(***************************************************************************)
(* Machine integers.                                                       *)
(***************************************************************************)
\* pub const MAX_INT: u64 = i32::MAX as u64;
MAX_INT == 2^Bits - 1

\* const MAX: i64 = (MAX_INT + 1) as i64;
MAX == MAX_INT + 1

\* Width of u64 / i64 relative to the domain: 64 = 2 * 31 + 2.
U64Bits == 2 * Bits + 2

U64_MAX == 2^U64Bits - 1

I64_MAX == 2^(U64Bits - 1) - 1

\* `prime as i64`: two's complement reinterpretation of a u64.
AsI64(u) == IF u > I64_MAX THEN u - (U64_MAX + 1) ELSE u

\* `prime as u64`, `... as u64`: two's complement reinterpretation of an i64.
AsU64(i) == IF i < 0 THEN i + (U64_MAX + 1) ELSE i

Abs(i) == IF i < 0 THEN -i ELSE i

\* Rust's `/` on i64 truncates toward zero.
TruncDiv(a, b) ==
    LET q == Abs(a) \div Abs(b)
    IN  IF (a < 0) = (b < 0) THEN q ELSE -q

\* Rust's `%` on i64: the remainder has the sign of the dividend.
TruncRem(a, b) == a - b * TruncDiv(a, b)

RECURSIVE BitAnd(_, _)
\* `&` on u64.
BitAnd(a, b) ==
    IF a = 0 \/ b = 0 THEN 0
    ELSE (a % 2) * (b % 2) + 2 * BitAnd(a \div 2, b \div 2)

RECURSIVE BitXor(_, _)
\* `^` on u64.
BitXor(a, b) ==
    IF a = 0 THEN b
    ELSE IF b = 0 THEN a
    ELSE (((a % 2) + (b % 2)) % 2) + 2 * BitXor(a \div 2, b \div 2)

(***************************************************************************)
(* Results.                                                                *)
(***************************************************************************)
Ok(v) == [tag |-> "Ok", val |-> v]

Err(e) == [tag |-> "Err", val |-> e]

\* OptimusError
NotPrime == "NotPrime"

NoModInverse == "NoModInverse"

\* A u64 returned by encode / decode.
Value(v) == [tag |-> "Value", val |-> v]

\* `attempt to multiply with overflow`: what a build with overflow checks
\* does where a build without them wraps.
Panic == [tag |-> "Panic", val |-> "multiply with overflow"]

\* The two ways rustc compiles u64 `*`: overflow-checks on (the dev
\* profile) and off (the release profile).
Builds == {"debug", "release"}

(***************************************************************************)
(* primal_check::miller_rabin (the dependency called at lines 25 and 59).  *)
(***************************************************************************)
\* (x * y) mod n.  (The crate widens the product so that it cannot
\* overflow; the model's integers are wider than its scaled word.)
mod_mul(x, y, n) == (x * y) % n

mod_sqr(x, n) == mod_mul(x, x, n)

RECURSIVE mod_exp(_, _, _)
\* x^d mod n by squaring.
mod_exp(x, d, n) ==
    IF d = 0 THEN 1 % n
    ELSE LET h == mod_exp(x, d \div 2, n)
         IN  IF d % 2 = 1 THEN mod_mul(mod_sqr(h, n), x % n, n)
             ELSE mod_sqr(h, n)

RECURSIVE OddPart(_)
\* while d % 2 == 0 { d /= 2; s += 1 }: the final d.
OddPart(d) == IF d % 2 = 0 /\ d > 0 THEN OddPart(d \div 2) ELSE d

RECURSIVE TwoPower(_)
\* while d % 2 == 0 { d /= 2; s += 1 }: the final s.
TwoPower(d) == IF d % 2 = 0 /\ d > 0 THEN 1 + TwoPower(d \div 2) ELSE 0

\* The witness table of miller_rabin: the first row whose bound is >= n.
\* (The rows above 1373652 are out of reach of the scaled word.)
Witnesses(n) == IF n <= 2046 THEN <<2>> ELSE <<2, 3>>

RECURSIVE SqrLoop(_, _, _)
\* for _r in 0..s { power = mod_sqr(power, n); if power == 1 { return false }
\*                  if power == n - 1 { continue 'next_witness } }  return false
SqrLoop(power, r, n) ==
    IF r = 0 THEN FALSE
    ELSE LET p == mod_sqr(power, n)
         IN  IF p = 1 THEN FALSE
             ELSE IF p = n - 1 THEN TRUE
             ELSE SqrLoop(p, r - 1, n)

\* One round of the 'next_witness loop: TRUE when witness a does not
\* prove n composite.
WitnessPasses(a, n) ==
    LET d == OddPart(n - 1)
        s == TwoPower(n - 1)
        power == mod_exp(a, d, n)
    IN  power = 1 \/ power = n - 1 \/ SqrLoop(power, s, n)

\* Not the real thing: a primality test that treats 1 as prime
\* (drops `if n == 1 { return false }`).
miller_rabin_one(n) ==
    IF n % 2 = 0 THEN n = 2
    ELSE \A i \in 1..Len(Witnesses(n)) : WitnessPasses(Witnesses(n)[i], n)

\* primal_check::miller_rabin(n: u64) -> bool
miller_rabin(n) ==
    IF n % 2 = 0 THEN n = 2
    ELSE IF n = 1 THEN FALSE
    ELSE \A i \in 1..Len(Witnesses(n)) : WitnessPasses(Witnesses(n)[i], n)

(***************************************************************************)
(* modinverse::modinverse (the dependency called at line 62).              *)
(***************************************************************************)
RECURSIVE egcd(_, _)
\* fn egcd(a, b) -> (g, x, y):
\*   if a == 0 { (b, 0, 1) }
\*   else { let (g, x, y) = egcd(b % a, a); (g, y - (b / a) * x, x) }
egcd(a, b) ==
    IF a = 0 THEN [g |-> b, x |-> 0, y |-> 1]
    ELSE LET r == egcd(TruncRem(b, a), a)
         IN  [g |-> r.g, x |-> r.y - TruncDiv(b, a) * r.x, y |-> r.x]

\* Not the real thing: modinverse without the final normalisation
\* (x % m + m) % m.
modinverse_raw(a, m) ==
    LET r == egcd(a, m)
    IN  IF r.g # 1 THEN -1
        ELSE TruncRem(r.x, m)

\* fn modinverse(a, m) -> Option<T>:
\*   let (g, x, _) = egcd(a, m);
\*   if g != 1 { None } else { Some((x % m + m) % m) }
\* None is modelled as -1 (Some is never negative).
modinverse(a, m) ==
    LET r == egcd(a, m)
    IN  IF r.g # 1 THEN -1
        ELSE TruncRem(TruncRem(r.x, m) + m, m)

(***************************************************************************)
(* Optimus.                                                                *)
(***************************************************************************)
\* pub struct Optimus { prime: u64, mod_inverse: u64, random: u64 }
Optimus(prime, mod_inverse, random) ==
    [live |-> TRUE, prime |-> prime, mod_inverse |-> mod_inverse,
     random |-> random]

\* A binding that holds no engine (nothing constructed, or Err returned).
NoEngine == [live |-> FALSE, prime |-> 0, mod_inverse |-> 0, random |-> 0]

\* pub fn new(prime: u64, mod_inverse: u64, random: u64) -> Result<Self, _>
new(prime, mod_inverse, random) ==
    IF ~miller_rabin(prime) THEN Err(NotPrime)
    ELSE Ok(Optimus(prime, mod_inverse, random))

\* Not the real thing: calc_mod_inverse computing the inverse before it
\* checks primality.
calc_mod_inverse_late(prime) ==
    LET inv == modinverse(prime, MAX)
    IN  IF inv = -1 THEN Err(NoModInverse)
        ELSE IF ~miller_rabin(AsU64(prime)) THEN Err(NotPrime)
        ELSE Ok(AsU64(inv))

\* pub fn calc_mod_inverse(prime: i64) -> Result<u64, OptimusError>
calc_mod_inverse(prime) ==
    IF ~miller_rabin(AsU64(prime)) THEN Err(NotPrime)
    ELSE LET inv == modinverse(prime, MAX)
         IN  IF inv = -1 THEN Err(NoModInverse) ELSE Ok(AsU64(inv))

\* Not the real thing: new_calculated passing new its last two arguments in
\* the wrong order.
new_calculated_swapped(prime, random) ==
    LET inv == calc_mod_inverse(AsI64(prime))
    IN  IF inv.tag = "Err" THEN inv
        ELSE new(prime, random, inv.val)

\* pub fn new_calculated(prime: u64, random: u64) -> Result<Self, _>
\*   Self::new(prime, Self::calc_mod_inverse(prime as i64)?, random)
new_calculated(prime, random) ==
    LET inv == calc_mod_inverse(AsI64(prime))
    IN  IF inv.tag = "Err" THEN inv
        ELSE new(prime, inv.val, random)

\* Whether the u64 product x * y does not fit a u64.
Overflows(x, y) == x * y > U64_MAX

\* u64 `x * y`: panics in a build with overflow checks, wraps in one without.
MulU64(b, x, y) ==
    IF Overflows(x, y)
    THEN IF b = "debug" THEN Panic ELSE Value((x * y) % (U64_MAX + 1))
    ELSE Value(x * y)

\* Not the real thing: encode masking n instead of the product.
encode_mask_first(b, self, n) ==
    LET prod == MulU64(b, BitAnd(n, MAX_INT), self.prime)
    IN  IF prod = Panic THEN Panic
        ELSE Value(BitXor(prod.val, self.random))

\* pub fn encode(&self, n: u64) -> u64
\*   ((n * self.prime) & MAX_INT) ^ self.random
encode(b, self, n) ==
    LET prod == MulU64(b, n, self.prime)
    IN  IF prod = Panic THEN Panic
        ELSE Value(BitXor(BitAnd(prod.val, MAX_INT), self.random))

\* Not the real thing: decode removing the mask after the multiplication.
decode_xor_last(b, self, n) ==
    LET prod == MulU64(b, n, self.mod_inverse)
    IN  IF prod = Panic THEN Panic
        ELSE Value(BitXor(BitAnd(prod.val, MAX_INT), self.random))

\* pub fn decode(&self, n: u64) -> u64
\*   ((n ^ self.random) * self.mod_inverse) & MAX_INT
decode(b, self, n) ==
    LET prod == MulU64(b, BitXor(n, self.random), self.mod_inverse)
    IN  IF prod = Panic THEN Panic
        ELSE Value(BitAnd(prod.val, MAX_INT))

(***************************************************************************)
(* Arguments the callers pass.                                             *)
(***************************************************************************)
\* [0, MAX_INT]
Domain == 0..MAX_INT

\* Every u64.
U64 == 0..U64_MAX

\* u64 arguments used next to an out-of-domain prime, and in SpecShared.
Samples == {1, U64_MAX}

\* Primes offered in SpecShared: the even prime, small odd ones, and the
\* top of the u64 range.
PrimeSamples == {2, 3, 5, U64_MAX - 2}

\* The callers that share an engine.
Callers == {1, 2}

\* The bindings that hold an engine.
Bindings == {"o", "twin"}

CtorOps == {"new", "new_calculated"}

CallOps == {"encode", "decode"}

\* A call: which operation, by which caller, on which engine binding, with
\* which arguments, and what it returned.
Call(op, by, on, arg, res) ==
    [op |-> op, by |-> by, on |-> on, arg |-> arg, res |-> res]

NoCall == Call("none", 0, "none", <<>>, Value(0))

\* The engine a binding names.
Engine(on) == IF on = "o" THEN o ELSE twin

(***************************************************************************)
(* The callers' steps.  ret is the last call, before the one before it.    *)
(***************************************************************************)
Init ==
    /\ build \in Builds
    /\ o = NoEngine
    /\ twin = NoEngine
    /\ ret = NoCall
    /\ before = NoCall

\* let o = Optimus::new(prime, mod_inverse, random);
New(prime, mod_inverse, random) ==
    /\ ~o.live
    /\ LET r == new(prime, mod_inverse, random)
       IN  /\ o' = IF r.tag = "Ok" THEN r.val ELSE NoEngine
           /\ ret' = Call("new", 1, "o", <<prime, mod_inverse, random>>, r)
    /\ before' = ret
    /\ UNCHANGED <<build, twin>>

\* let o = Optimus::new_calculated(prime, random);
NewCalculated(prime, random) ==
    /\ ~o.live
    /\ LET r == new_calculated(prime, random)
       IN  /\ o' = IF r.tag = "Ok" THEN r.val ELSE NoEngine
           /\ ret' = Call("new_calculated", 1, "o", <<prime, random>>, r)
    /\ before' = ret
    /\ UNCHANGED <<build, twin>>

\* Optimus::calc_mod_inverse(prime): an associated function, no engine.
CalcModInverse(prime) ==
    /\ ret' = Call("calc_mod_inverse", 1, "none", <<prime>>,
                   calc_mod_inverse(prime))
    /\ before' = ret
    /\ UNCHANGED <<build, o, twin>>

\* let twin = Optimus::new(p, m, r) with the parameters o was built from.
NewTwin ==
    /\ o.live
    /\ ~twin.live
    /\ LET r == new(o.prime, o.mod_inverse, o.random)
       IN  /\ twin' = IF r.tag = "Ok" THEN r.val ELSE NoEngine
           /\ ret' = Call("new", 2, "twin",
                          <<o.prime, o.mod_inverse, o.random>>, r)
    /\ before' = ret
    /\ UNCHANGED <<build, o>>

\* let twin = o.clone();   (#[derive(Clone, Copy)])
Clone ==
    /\ o.live
    /\ ~twin.live
    /\ twin' = o
    /\ ret' = Call("clone", 2, "twin", <<>>, Ok(o))
    /\ before' = ret
    /\ UNCHANGED <<build, o>>

\* Not the real thing: an encode that takes &mut self and steps the mask.
Encode_reseed(by, on, n) ==
    /\ Engine(on).live
    /\ ret' = Call("encode", by, on, <<n>>, encode(build, Engine(on), n))
    /\ before' = ret
    /\ o' = IF on = "o"
            THEN [o EXCEPT !.random = (o.random + 1) % (U64_MAX + 1)]
            ELSE o
    /\ twin' = IF on = "twin"
               THEN [twin EXCEPT !.random = (twin.random + 1) % (U64_MAX + 1)]
               ELSE twin
    /\ UNCHANGED build

\* o.encode(n) or twin.encode(n), by a caller that shares the engine.
Encode(by, on, n) ==
    /\ Engine(on).live
    /\ ret' = Call("encode", by, on, <<n>>, encode(build, Engine(on), n))
    /\ before' = ret
    /\ UNCHANGED <<build, o, twin>>

\* o.decode(n) or twin.decode(n), by a caller that shares the engine.
Decode(by, on, n) ==
    /\ Engine(on).live
    /\ ret' = Call("decode", by, on, <<n>>, decode(build, Engine(on), n))
    /\ before' = ret
    /\ UNCHANGED <<build, o, twin>>

(***************************************************************************)
(* Spec: one session as the tests and the demo run it.  An engine is       *)
(* constructed (or calc_mod_inverse is called on its own), then a value is *)
(* encoded and the result decoded, or a value is decoded directly.         *)
(* Constructor arguments: every (prime, mod_inverse, random) of the        *)
(* domain, and every u64 prime with sampled mod_inverse and random.        *)
(***************************************************************************)
Next ==
    \/ /\ ret.op = "none"
       /\ \E p \in Domain, mi \in Domain, r \in Domain : New(p, mi, r)
    \/ /\ ret.op = "none"
       /\ \E p \in U64, mi \in Samples, r \in Samples : New(p, mi, r)
    \/ /\ ret.op = "none"
       /\ \E p \in Domain, r \in Domain : NewCalculated(p, r)
    \/ /\ ret.op = "none"
       /\ \E p \in U64, r \in Samples : NewCalculated(p, r)
    \/ /\ ret.op = "none"
       /\ \E p \in U64 : CalcModInverse(AsI64(p))
    \/ /\ ret.op \in CtorOps
       /\ \E n \in Domain : Encode(1, "o", n)
    \/ /\ ret.op \in CtorOps
       /\ \E u \in Domain : Decode(1, "o", u)
    \/ /\ ret.op = "encode"
       /\ ret.res.tag = "Value"
       /\ Decode(1, "o", ret.res.val)

Spec == Init /\ [][Next]_vars

(***************************************************************************)
(* SpecShared: an engine shared by two callers, and a second engine built  *)
(* from the same parameters; encode and decode are called in any order.    *)
(***************************************************************************)
NextShared ==
    \/ \E p \in PrimeSamples, mi \in Samples, r \in Samples : New(p, mi, r)
    \/ NewTwin
    \/ Clone
    \/ \E by \in Callers, on \in Bindings, n \in Samples : Encode(by, on, n)
    \/ \E by \in Callers, on \in Bindings, n \in Samples : Decode(by, on, n)

SpecShared == Init /\ [][NextShared]_vars

(***************************************************************************)
(* The mathematics the properties are stated in (independent of the code). *)
(***************************************************************************)
\* The prime numbers a u64 can hold: those with no divisor from 2 up to the
\* square root of the largest u64.
Primes ==
    {n \in 2..U64_MAX :
        \A d \in 2..(2^(U64Bits \div 2)) : d >= n \/ n % d # 0}

\* n is a prime number.
IsPrime(n) == n \in Primes

\* x is an inverse of p modulo MAX_INT + 1.
IsInverse(p, x) == (p * x) % (MAX_INT + 1) = 1

\* Bit i of a.
BitOf(a, i) == (a \div 2^i) % 2

RECURSIVE XorFrom(_, _, _)
\* XOR, bit position by bit position, from bit i upwards.
XorFrom(a, b, i) ==
    IF 2^i > a /\ 2^i > b THEN 0
    ELSE ((BitOf(a, i) + BitOf(b, i)) % 2) * 2^i + XorFrom(a, b, i + 1)

\* XOR of any two u64, tabulated on the domain.
XorTable == [a \in Domain |-> [b \in Domain |-> XorFrom(a, b, 0)]]

XorMath(a, b) ==
    IF a \in Domain /\ b \in Domain THEN XorTable[a][b] ELSE XorFrom(a, b, 0)

\* i32::MAX, the source's own MAX_INT (the model's MAX_INT is scaled).
I32_MAX == 2147483647

\* (x + y) mod 2^31 for x, y < 2^31, never leaving 31 bits.
AddMod31(x, y) ==
    IF x > I32_MAX - y THEN x - (I32_MAX - y) - 1 ELSE x + y

\* (a * b) mod 2^31 for a, b < 2^31, never leaving 31 bits: with
\* a = a1 * 2^15 + a0 and b = b1 * 2^15 + b0,
\* a * b = a1 * b1 * 2^30 + (a1 * b0 + a0 * b1) * 2^15 + a0 * b0.
MulMod31(a, b) ==
    LET a0 == a % 32768
        a1 == a \div 32768
        b0 == b % 32768
        b1 == b \div 32768
        cross == (((a1 * b0) % 65536) + ((a0 * b1) % 65536)) % 65536
        high == ((a1 % 2) * (b1 % 2)) * 1073741824
    IN  AddMod31(AddMod31(a0 * b0, cross * 32768), high)

\* a XOR b for a, b < 2^31, byte by byte.
Xor31(a, b) ==
    XorFrom(a % 256, b % 256, 0)
    + 256 * XorFrom((a \div 256) % 256, (b \div 256) % 256, 0)
    + 65536 * XorFrom((a \div 65536) % 256, (b \div 65536) % 256, 0)
    + 16777216 * XorFrom(a \div 16777216, b \div 16777216, 0)

\* The engine's three fields lie in [0, MAX_INT].
InDomain(e) ==
    e.prime \in Domain /\ e.mod_inverse \in Domain /\ e.random \in Domain

(***************************************************************************)
(* C1  Round trip.                                                         *)
(***************************************************************************)
\* The last two calls are encode(n) and decode of what it returned, on an
\* engine of the domain whose mod_inverse is the inverse of its prime.
RoundTripCase ==
    /\ o.live
    /\ InDomain(o)
    /\ IsInverse(o.prime, o.mod_inverse)
    /\ before.op = "encode"
    /\ before.arg[1] \in Domain
    /\ before.res.tag = "Value"
    /\ ret.op = "decode"
    /\ ret.arg = <<before.res.val>>

\* C1: on every engine whose construction succeeded, whose prime,
\* mod_inverse and random lie in [0, MAX_INT] and whose mod_inverse is the
\* inverse of its prime modulo MAX_INT + 1, decode(encode(n)) = n for every
\* n in [0, MAX_INT].
C1_RoundTrip ==
    /\ RoundTripCase => ret.res = Value(before.arg[1])
    /\ (o.live /\ InDomain(o) /\ IsInverse(o.prime, o.mod_inverse)
          /\ ret.op = "encode" /\ ret.arg[1] \in Domain)
       => ret.res.tag = "Value"

\* A round trip of MAX_INT through an engine with an odd prime above 3 and a
\* non-zero mask, whose encoding differs from the input.
C1_Witness ==
    /\ RoundTripCase
    /\ before.arg[1] = MAX_INT
    /\ before.res.val # MAX_INT
    /\ o.prime > 3
    /\ o.mod_inverse # o.prime
    /\ o.random > 1
    /\ ret.res = Value(MAX_INT)

(***************************************************************************)
(* C2  Bijection coverage.                                                 *)
(***************************************************************************)
\* C2: for every engine the constructors return with random in
\* [0, MAX_INT], encode on [0, MAX_INT] has no collisions and every output
\* lies in [0, MAX_INT].
C2_Bijection ==
    (o.live /\ o.random \in Domain) =>
        /\ \A n \in Domain :
              /\ encode(build, o, n).tag = "Value"
              /\ encode(build, o, n).val \in Domain
        /\ \A n1 \in Domain, n2 \in Domain :
              n1 # n2 => encode(build, o, n1) # encode(build, o, n2)

(***************************************************************************)
(* C3  Primality gate on construction.                                     *)
(***************************************************************************)
\* C3: new returns NotPrime exactly when prime is not a prime number (it
\* returns no other error); every engine that exists has a prime field that
\* is prime; a failed construction leaves no engine.
C3_PrimalityGate ==
    /\ ret.op = "new" =>
          /\ ret.res = Err(NotPrime) <=> ~IsPrime(ret.arg[1])
          /\ ret.res.tag = "Ok" <=> IsPrime(ret.arg[1])
    /\ o.live => IsPrime(o.prime)
    /\ (ret.op \in CtorOps /\ ret.res.tag = "Err") => ~o.live
    /\ (ret.op \in CtorOps /\ ret.res.tag = "Ok") => o = ret.res.val

\* new rejected the odd composite 15 and left no engine.
C3_Witness ==
    /\ ret.op = "new"
    /\ ret.arg[1] = 15
    /\ ret.res = Err(NotPrime)
    /\ ~o.live

(***************************************************************************)
(* C4  Inverse correctness.                                                *)
(***************************************************************************)
\* At the source's own width, 2^31: the value test_calc_mod_inverse expects
\* is the inverse of its prime (and an inverse modulo 2^31 is unique).
C4_TestNumbers == MulMod31(309779747, 49560203) = 1

\* C4: for every prime p with 2 < p < MAX_INT + 1, calc_mod_inverse(p) is
\* Ok(x) with 0 <= x < MAX_INT + 1 and (p * x) mod (MAX_INT + 1) = 1.
C4_InverseCorrect ==
    /\ (/\ ret.op = "calc_mod_inverse"
        /\ IsPrime(ret.arg[1])
        /\ 2 < ret.arg[1]
        /\ ret.arg[1] < MAX_INT + 1)
       => /\ ret.res.tag = "Ok"
          /\ 0 <= ret.res.val
          /\ ret.res.val < MAX_INT + 1
          /\ IsInverse(ret.arg[1], ret.res.val)
    /\ C4_TestNumbers

\* calc_mod_inverse(3) returned the inverse of 3, which is not 3 itself.
C4_Witness ==
    /\ ret.op = "calc_mod_inverse"
    /\ ret.arg = <<3>>
    /\ ret.res.tag = "Ok"
    /\ ret.res.val # 3
    /\ IsInverse(3, ret.res.val)

(***************************************************************************)
(* C5  Calculated construction.                                            *)
(***************************************************************************)
\* C5: for every prime argument in [0, MAX_INT] and every random,
\* new_calculated(prime, random) returns what new(prime, x, random) returns
\* when calc_mod_inverse(prime) = Ok(x), and the engine then holds the
\* inverse of its prime; when calc_mod_inverse(prime) fails, new_calculated
\* returns that error and there is no engine.
C5_Calculated ==
    (ret.op = "new_calculated" /\ ret.arg[1] \in Domain) =>
        LET c == calc_mod_inverse(ret.arg[1])
        IN  /\ c.tag = "Ok" =>
                  /\ ret.res = new(ret.arg[1], c.val, ret.arg[2])
                  /\ ret.res.tag = "Ok"
                  /\ o = Optimus(ret.arg[1], c.val, ret.arg[2])
                  /\ IsInverse(o.prime, o.mod_inverse)
            /\ c.tag = "Err" =>
                  /\ ret.res = c
                  /\ c.val \in {NotPrime, NoModInverse}
                  /\ ~o.live

\* new_calculated built an engine whose mod_inverse differs from its prime
\* and from its random.
C5_Witness ==
    /\ ret.op = "new_calculated"
    /\ ret.arg[1] \in Domain
    /\ ret.res.tag = "Ok"
    /\ o.live
    /\ o.mod_inverse # o.prime
    /\ o.mod_inverse # o.random
    /\ IsInverse(o.prime, o.mod_inverse)

(***************************************************************************)
(* C6  Encode and decode match their modular definitions.                  *)
(***************************************************************************)
\* The last call is encode or decode of a value of [0, MAX_INT] on an
\* engine whose three fields lie in [0, MAX_INT].
InDomainCall(op) ==
    /\ o.live
    /\ InDomain(o)
    /\ ret.op = op
    /\ ret.arg[1] \in Domain

\* At the source's own width, 2^31: the two modular definitions give the
\* numbers of examples/demo.rs for the engine (1580030173, 59260789,
\* 1163945558) and the id 15.
C6_DemoNumbers ==
    /\ Xor31(MulMod31(15, 1580030173), 1163945558) = 1103647397
    /\ MulMod31(Xor31(1103647397, 1163945558), 59260789) = 15

\* C6: on every engine with prime, mod_inverse and random in [0, MAX_INT],
\* and for every n, u in [0, MAX_INT],
\*   encode(n) = ((n * prime) mod (MAX_INT + 1)) XOR random  and
\*   decode(u) = ((u XOR random) * mod_inverse) mod (MAX_INT + 1).
C6_ModularDefinitions ==
    /\ InDomainCall("encode") =>
          ret.res =
            Value(XorMath((ret.arg[1] * o.prime) % (MAX_INT + 1), o.random))
    /\ InDomainCall("decode") =>
          ret.res =
            Value((XorMath(ret.arg[1], o.random) * o.mod_inverse)
                    % (MAX_INT + 1))
    /\ C6_DemoNumbers

\* An encode whose product n * prime exceeds MAX_INT, so that the mask
\* removes high bits, under a non-zero random.
C6_Witness ==
    /\ InDomainCall("encode")
    /\ ret.arg[1] * o.prime > 2 * MAX_INT
    /\ o.random > 1
    /\ ret.res.tag = "Value"
    /\ ret.res.val # ret.arg[1] * o.prime

(***************************************************************************)
(* C7  Immutability and determinism.                                       *)
(***************************************************************************)
\* An encode or decode step leaves every engine as it was.
C7_Frame == ret'.op \in CallOps => (o' = o /\ twin' = twin)

\* Two calls of the same operation with the same argument, whoever made
\* them and whichever of the two identically built engines they were made
\* on, returned the same.
C7_SameResult ==
    (/\ ret.op \in CallOps
     /\ before.op = ret.op
     /\ before.arg = ret.arg)
    => before.res = ret.res

\* A call returned what the operation gives on the engine as it was built.
C7_FromFields ==
    /\ ret.op = "encode" =>
          ret.res = encode(build, Engine(ret.on), ret.arg[1])
    /\ ret.op = "decode" =>
          ret.res = decode(build, Engine(ret.on), ret.arg[1])
    /\ twin.live => twin = o

\* C7: no encode or decode call, by any caller in any interleaving, changes
\* an engine's prime, mod_inverse or random; so the same call returns the
\* same value whatever came before, and two engines built from the same
\* parameters return the same values.
C7_Immutable == [][C7_Frame]_vars /\ [](C7_SameResult /\ C7_FromFields)

\* Caller 2 repeated on the twin engine the encode caller 1 made on o, and
\* got the same value.
C7_Witness ==
    /\ twin.live
    /\ before.op = "encode"
    /\ before.by = 1
    /\ before.on = "o"
    /\ ret.op = "encode"
    /\ ret.by = 2
    /\ ret.on = "twin"
    /\ ret.arg = before.arg
    /\ ret.res = before.res
    /\ ret.res.tag = "Value"
    /\ ret.res.val # ret.arg[1]

(***************************************************************************)
(* C8  Direct construction trusts the supplied inverse.                    *)
(***************************************************************************)
\* C8: for every prime argument and every mod_inverse and random, also a
\* mod_inverse that is not the inverse of prime, new returns an engine with
\* exactly the three values; on an engine with such a wrong inverse decode
\* still returns a value, and decode(encode(n)) # n for some n of
\* [0, MAX_INT].
C8_TrustedInverse ==
    /\ (ret.op = "new" /\ IsPrime(ret.arg[1])) =>
          /\ ret.res = Ok(Optimus(ret.arg[1], ret.arg[2], ret.arg[3]))
          /\ Engine(ret.on) = Optimus(ret.arg[1], ret.arg[2], ret.arg[3])
    /\ (o.live /\ ~IsInverse(o.prime, o.mod_inverse)) =>
          /\ ret.op = "decode" => ret.res.tag = "Value"
          /\ \E n \in Domain :
                /\ encode(build, o, n).tag = "Value"
                /\ decode(build, o, encode(build, o, n).val) # Value(n)

(***************************************************************************)
(* C9  Failure paths of calc_mod_inverse.                                  *)
(***************************************************************************)
\* C9: for p in [0, MAX_INT], calc_mod_inverse(p) is NotPrime for every p
\* that is not prime, NoModInverse exactly for p = 2, and Ok for every
\* other prime.
C9_FailurePaths ==
    (ret.op = "calc_mod_inverse" /\ ret.arg[1] \in Domain) =>
        /\ ~IsPrime(ret.arg[1]) => ret.res = Err(NotPrime)
        /\ ret.res = Err(NoModInverse) <=> ret.arg[1] = 2
        /\ (IsPrime(ret.arg[1]) /\ ret.arg[1] # 2) => ret.res.tag = "Ok"

\* calc_mod_inverse of an even composite returned NotPrime.
C9_Witness ==
    /\ ret.op = "calc_mod_inverse"
    /\ ret.arg = <<MAX_INT - 1>>
    /\ ~IsPrime(MAX_INT - 1)
    /\ ret.res = Err(NotPrime)

(***************************************************************************)
(* C10  Encode and decode never overflow for in-range input.               *)
(***************************************************************************)
\* C10: on every engine new returned and for every n in [0, MAX_INT], the
\* u64 products n * prime (encode) and (n XOR random) * mod_inverse
\* (decode) stay below 2^64: no panic and no wrap-around.
C10_NoOverflow ==
    /\ (ret.op = "encode" /\ ret.arg[1] \in Domain) =>
          /\ ~Overflows(ret.arg[1], o.prime)
          /\ ret.res.tag = "Value"
    /\ (ret.op = "decode" /\ ret.arg[1] \in Domain) =>
          /\ ~Overflows(XorMath(ret.arg[1], o.random), o.mod_inverse)
          /\ ret.res.tag = "Value"

====
